---- MODULE Spec2Model ----
(***************************************************************************)
(* The traffic light of src/main.rs: three type-state structs (Red, Green, *)
(* Yellow), the conversions From<TrafficLight<_>> between them, the tagged *)
(* union TrafficLightWrapper with new() and step(), and main's loop.       *)
(*                                                                         *)
(* A machine is one running copy of main's loop.  Its program state is the *)
(* value of `state_machine` and the position `pc` inside the conversion    *)
(* that step() is executing.  What the program does to the outside world   *)
(* (lines written by println!, durations handed to sleep) is recorded in   *)
(* `out` and `sleeps`; `steps` counts the transitions that have returned.  *)
(* Standard output belongs to the environment: `stdout` tells whether it   *)
(* takes a write, makes the writer wait, fails the write, or was closed    *)
(* when the process started.  A write may take a part of the line only,    *)
(* and println! writes on with the rest: `torn` holds the part of a line   *)
(* that standard output has taken so far.  println! panics when the write  *)
(* fails, and the panic ends the process; what the environment took of the *)
(* failed line is on standard output all the same.  On a closed standard   *)
(* output println! writes nothing and returns as if it had written.        *)
(***************************************************************************)
EXTENDS Naturals, Sequences, FiniteSets, TLC

VARIABLES
    state_machine,  \* machine -> the TrafficLightWrapper held by main's variable
    pc,             \* machine -> "loop" | "printed" | "slept" | "panicked" | "killed"
    out,            \* machine -> lines written to standard output
    sleeps,         \* machine -> durations handed to sleep, in order
    asleep,         \* machine -> seconds handed to sleep in the recording, in all
    steps,          \* machine -> transitions completed in the recording
    start,          \* machine -> the wrapper the recording started from
    stdout,         \* machine -> "open" | "blocked" | "failing" | "closed"
    torn,           \* machine -> bytes of an unfinished line at the end of stdout
    window,         \* transitions recorded before the recording starts afresh
    keep            \* lines and durations the recording holds, the latest ones

vars == <<state_machine, pc, out, sleeps, asleep, steps, start, stdout, torn, window, keep>>

(***************************************************************************)
(* Bounds of the model.  A recording covers a whole number of cycles of    *)
(* the light; when it is full the recorder starts a new one from the state *)
(* the machine is then in, and the machine itself runs on.                 *)
(***************************************************************************)
\* Cycles recorded in a run of a thousand steps and more.
MaxCycles == 334

\* Cycles recorded otherwise, and cycles whose lines and durations the
\* recording of the long run holds.
Cycles == 3

\* The three variants of TrafficLightWrapper (main.rs 96-100).
Variants == {"Red", "Green", "Yellow"}

(***************************************************************************)
(* Values                                                                  *)
(***************************************************************************)

\* std::time::Duration::new(secs, nanos).
Duration_new(secs, nanos) == [secs |-> secs, nanos |-> nanos]

\* Red::new with the bug of Yellow's 10 seconds.
Red_new_Ten == [name |-> "Red", wait_time |-> Duration_new(10, 0)]

\* Red::new (main.rs 19-25).
Red_new == [name |-> "Red", wait_time |-> Duration_new(60, 0)]

\* Green::new (main.rs 32-38).
Green_new == [name |-> "Green", wait_time |-> Duration_new(60, 0)]

\* Yellow::new with the bug of Red's and Green's 60 seconds.
Yellow_new_Sixty == [name |-> "Yellow", wait_time |-> Duration_new(60, 0)]

\* Yellow::new (main.rs 45-51).
Yellow_new == [name |-> "Yellow", wait_time |-> Duration_new(10, 0)]

\* struct TrafficLight<TLS> { state: TLS } (main.rs 53-56).
TrafficLight(tls) == [state |-> tls]

\* TrafficLight<Green>::new (main.rs 58-64).
TrafficLight_new == TrafficLight(Green_new)

(***************************************************************************)
(* #[derive(Debug)] output.  Duration's Debug prints whole seconds as      *)
(* "<secs>s"; every Duration of this program has nanos = 0.                *)
(***************************************************************************)
fmt_Duration(d) == ToString(d.secs) \o "s"

fmt_State(s) == s.name \o " { wait_time: " \o fmt_Duration(s.wait_time) \o " }"

fmt_TrafficLight(light) == "TrafficLight { state: " \o fmt_State(light.state) \o " }"

\* println!("last state is {:?}", light) (main.rs 68, 78, 88).
println(light) == "last state is " \o fmt_TrafficLight(light)

(***************************************************************************)
(* The conversions.  Each one prints its argument, sleeps for the          *)
(* argument's wait_time and then builds the next light; the record gives   *)
(* the three in the order the code performs them.                          *)
(***************************************************************************)

\* From<Green> for Yellow with the bug of sleeping for the new light's wait.
From_Green_for_Yellow_SleepsNew(green) ==
    [line  |-> println(green),
     sleep |-> Yellow_new.wait_time,
     ret   |-> TrafficLight(Yellow_new)]

\* impl From<TrafficLight<Green>> for TrafficLight<Yellow> (main.rs 66-74).
From_Green_for_Yellow(green) ==
    [line  |-> println(green),
     sleep |-> green.state.wait_time,
     ret   |-> TrafficLight(Yellow_new)]

\* From<Yellow> for Red with the bug of carrying the old wait over to the new light.
From_Yellow_for_Red_KeepsWait(yellow) ==
    [line  |-> println(yellow),
     sleep |-> yellow.state.wait_time,
     ret   |-> TrafficLight([name |-> "Red", wait_time |-> yellow.state.wait_time])]

\* From<Yellow> for Red with the bug of printing the light it has built.
From_Yellow_for_Red_PrintsNew(yellow) ==
    [line  |-> println(TrafficLight(Red_new)),
     sleep |-> yellow.state.wait_time,
     ret   |-> TrafficLight(Red_new)]

\* impl From<TrafficLight<Yellow>> for TrafficLight<Red> (main.rs 76-84).
From_Yellow_for_Red(yellow) ==
    [line  |-> println(yellow),
     sleep |-> yellow.state.wait_time,
     ret   |-> TrafficLight(Red_new)]

\* impl From<TrafficLight<Red>> for TrafficLight<Green> (main.rs 86-94).
From_Red_for_Green(red) ==
    [line  |-> println(red),
     sleep |-> red.state.wait_time,
     ret   |-> TrafficLight(Green_new)]

\* A value of enum TrafficLightWrapper: the variant tag and the light it wraps.
Wrapper(tag, light) == [tag |-> tag, light |-> light]

\* new() with the bug of starting the light at Red.
TrafficLightWrapper_new_Red == Wrapper("Red", TrafficLight(Red_new))

\* TrafficLightWrapper::new (main.rs 103-105).
TrafficLightWrapper_new == Wrapper("Green", TrafficLight_new)

\* step with the bug of a Green arm that converts twice in one step,
\* Red(TrafficLight::<Yellow>::from(val).into()): the step ends with the
\* second conversion, from the Yellow light the first one built to Red.
step_arm_GreenConvertsTwice(self) ==
    CASE self.tag = "Green"  -> [tag |-> "Red",
                                 conv |-> From_Yellow_for_Red(From_Green_for_Yellow(self.light).ret)]
      [] self.tag = "Yellow" -> [tag |-> "Red",    conv |-> From_Yellow_for_Red(self.light)]
      [] self.tag = "Red"    -> [tag |-> "Green",  conv |-> From_Red_for_Green(self.light)]

\* step with the bug of a Red arm that goes to Yellow.
step_arm_RedToYellow(self) ==
    CASE self.tag = "Green"  -> [tag |-> "Yellow", conv |-> From_Green_for_Yellow(self.light)]
      [] self.tag = "Yellow" -> [tag |-> "Red",    conv |-> From_Yellow_for_Red(self.light)]
      [] self.tag = "Red"    -> [tag |-> "Yellow", conv |-> From_Green_for_Yellow(self.light)]

\* step with the bug of a Yellow arm that goes back to Green.
step_arm_YellowToGreen(self) ==
    CASE self.tag = "Green"  -> [tag |-> "Yellow", conv |-> From_Green_for_Yellow(self.light)]
      [] self.tag = "Yellow" -> [tag |-> "Green",  conv |-> From_Red_for_Green(self.light)]
      [] self.tag = "Red"    -> [tag |-> "Green",  conv |-> From_Red_for_Green(self.light)]

(***************************************************************************)
(* TrafficLightWrapper::step (main.rs 106-112): the match picks the arm by *)
(* the variant tag, the arm names the target variant and thereby the       *)
(* conversion that `into()` resolves to.                                   *)
(***************************************************************************)
step_arm(self) ==
    CASE self.tag = "Green"  -> [tag |-> "Yellow", conv |-> From_Green_for_Yellow(self.light)]
      [] self.tag = "Yellow" -> [tag |-> "Red",    conv |-> From_Yellow_for_Red(self.light)]
      [] self.tag = "Red"    -> [tag |-> "Green",  conv |-> From_Red_for_Green(self.light)]

\* The value step returns.
step(self) == Wrapper(step_arm(self).tag, step_arm(self).conv.ret)

(***************************************************************************)
(* The wrappers the program can hold: new() and everything step makes of   *)
(* it.                                                                     *)
(***************************************************************************)
Wrappers ==
    {TrafficLightWrapper_new,
     step(TrafficLightWrapper_new),
     step(step(TrafficLightWrapper_new))}

Machines == DOMAIN pc

(***************************************************************************)
(* Initial states                                                          *)
(***************************************************************************)

\* A fresh machine record set: every machine m starts at the loop head
\* holding w[m], with nothing printed and nothing slept.  Standard output is
\* whatever the process was started with: it may block or fail from the
\* first write, or be closed.
Boot(w, win, k) ==
    /\ state_machine = w
    /\ start = w
    /\ pc = [m \in DOMAIN w |-> "loop"]
    /\ out = [m \in DOMAIN w |-> <<>>]
    /\ sleeps = [m \in DOMAIN w |-> <<>>]
    /\ asleep = [m \in DOMAIN w |-> 0]
    /\ steps = [m \in DOMAIN w |-> 0]
    /\ stdout \in [DOMAIN w -> {"open", "blocked", "failing", "closed"}]
    /\ torn = [m \in DOMAIN w |-> ""]
    /\ window = win
    /\ keep = k

\* main (main.rs 115-116): one machine, state_machine = TrafficLightWrapper::new().
Init == Boot([m \in {1} |-> TrafficLightWrapper_new], 3 * Cycles, 3 * Cycles)

\* The recording with x added: it holds the latest `keep` entries.
Record(log, x) ==
    IF Len(log) < keep THEN Append(log, x) ELSE Append(Tail(log), x)

(***************************************************************************)
(* One iteration of main's loop (main.rs 118-120), statement by statement  *)
(* of the conversion that step() calls.                                    *)
(***************************************************************************)

\* The positions at which the process has ended.
Dead == {"panicked", "killed"}

\* How many bytes of a line standard output may have taken once it has
\* taken more than `have`: up to the whole text short of its line end.
TornLengths(line, have) == {n \in 1..Len(line) : n > Len(have)}

\* step() is entered, the match arm calls into(), the conversion prints.
\* A write that standard output takes in part: println! writes on with the
\* rest of the line.
PrintlnWrites(m) ==
    /\ pc[m] = "loop"
    /\ stdout[m] = "open"
    /\ LET line == step_arm(state_machine[m]).conv.line
       IN  \E n \in TornLengths(line, torn[m]) :
              torn' = [torn EXCEPT ![m] = SubSeq(line, 1, n)]
    /\ UNCHANGED <<state_machine, pc, out, sleeps, asleep, steps, start, stdout, window, keep>>

\* Standard output takes the line, or what was left of it, and println!
\* returns.  While standard output is blocked, println! stays inside the
\* write: the machine waits at this statement.
Println(m) ==
    /\ pc[m] = "loop"
    /\ stdout[m] = "open"
    /\ out' = [out EXCEPT ![m] = Record(@, step_arm(state_machine[m]).conv.line)]
    /\ torn' = [torn EXCEPT ![m] = ""]
    /\ pc' = [pc EXCEPT ![m] = "printed"]
    /\ UNCHANGED <<state_machine, sleeps, asleep, steps, start, stdout, window, keep>>

\* The same println! with standard output closed: std takes the write for
\* done, nothing is written, println! returns and the conversion goes on.
PrintlnDrops(m) ==
    /\ pc[m] = "loop"
    /\ stdout[m] = "closed"
    /\ pc' = [pc EXCEPT ![m] = "printed"]
    /\ UNCHANGED <<state_machine, out, sleeps, asleep, steps, start, stdout, torn, window, keep>>

\* The same println!, the write fails: println! panics, the conversion never
\* sleeps and the process ends (exit status 101).  Of the line, standard
\* output has what it had taken (nothing, when it took no byte: a pipe
\* without reader, a full device), or more of its first bytes (it fails after a
\* partial write), or all of it (the failure was passing: the line stayed
\* in std's buffer and the runtime flushed it when the process exited).
PrintlnPanics(m) ==
    /\ pc[m] = "loop"
    /\ stdout[m] = "failing"
    /\ LET line == step_arm(state_machine[m]).conv.line
       IN  \/ UNCHANGED <<out, torn>>
           \/ /\ \E n \in TornLengths(line, torn[m]) :
                    torn' = [torn EXCEPT ![m] = SubSeq(line, 1, n)]
              /\ UNCHANGED out
           \/ /\ out' = [out EXCEPT ![m] = Record(@, line)]
              /\ torn' = [torn EXCEPT ![m] = ""]
    /\ pc' = [pc EXCEPT ![m] = "panicked"]
    /\ UNCHANGED <<state_machine, sleeps, asleep, steps, start, stdout, window, keep>>

\* The same println!, the failed write raises a signal whose default action
\* ends the process (SIGXFSZ past a file size limit): no panic, no flush;
\* standard output has what it had taken or more of the line's first bytes.
PrintlnKilled(m) ==
    /\ pc[m] = "loop"
    /\ stdout[m] = "failing"
    /\ LET line == step_arm(state_machine[m]).conv.line
       IN  \/ UNCHANGED torn
           \/ \E n \in TornLengths(line, torn[m]) :
                 torn' = [torn EXCEPT ![m] = SubSeq(line, 1, n)]
    /\ pc' = [pc EXCEPT ![m] = "killed"]
    /\ UNCHANGED <<state_machine, out, sleeps, asleep, steps, start, stdout, window, keep>>

\* The conversion sleeps.
Sleep(m) ==
    /\ pc[m] = "printed"
    /\ sleeps' = [sleeps EXCEPT ![m] = Record(@, step_arm(state_machine[m]).conv.sleep)]
    /\ asleep' = [asleep EXCEPT ![m] = @ + step_arm(state_machine[m]).conv.sleep.secs]
    /\ pc' = [pc EXCEPT ![m] = "slept"]
    /\ UNCHANGED <<state_machine, out, steps, start, stdout, torn, window, keep>>

\* The conversion returns the new light, step wraps it, main assigns it.
\* A full recording is put aside and a new one starts from the new state.
Return(m) ==
    /\ pc[m] = "slept"
    /\ state_machine' = [state_machine EXCEPT ![m] = step(@)]
    /\ pc' = [pc EXCEPT ![m] = "loop"]
    /\ IF steps[m] + 1 < window
       THEN /\ steps' = [steps EXCEPT ![m] = @ + 1]
            /\ UNCHANGED <<out, sleeps, asleep, start>>
       ELSE /\ steps' = [steps EXCEPT ![m] = 0]
            /\ out' = [out EXCEPT ![m] = <<>>]
            /\ sleeps' = [sleeps EXCEPT ![m] = <<>>]
            /\ asleep' = [asleep EXCEPT ![m] = 0]
            /\ start' = [start EXCEPT ![m] = step(state_machine[m])]
    /\ UNCHANGED <<stdout, torn, window, keep>>

(***************************************************************************)
(* The environment, while the process runs.                                *)
(***************************************************************************)

\* Standard output stops taking bytes for a while (a pipe whose buffer is
\* full and whose reader does not read).
StdoutBlocks(m) ==
    /\ pc[m] \notin Dead
    /\ stdout[m] = "open"
    /\ stdout' = [stdout EXCEPT ![m] = "blocked"]
    /\ UNCHANGED <<state_machine, pc, out, sleeps, asleep, steps, start, torn, window, keep>>

\* The reader drains it.
StdoutDrains(m) ==
    /\ pc[m] \notin Dead
    /\ stdout[m] = "blocked"
    /\ stdout' = [stdout EXCEPT ![m] = "open"]
    /\ UNCHANGED <<state_machine, pc, out, sleeps, asleep, steps, start, torn, window, keep>>

\* Standard output starts failing writes (its reader goes away, its device
\* fills up, a size limit is reached).
StdoutFails(m) ==
    /\ pc[m] \notin Dead
    /\ stdout[m] \in {"open", "blocked"}
    /\ stdout' = [stdout EXCEPT ![m] = "failing"]
    /\ UNCHANGED <<state_machine, pc, out, sleeps, asleep, steps, start, torn, window, keep>>

Environment(m) == StdoutBlocks(m) \/ StdoutDrains(m) \/ StdoutFails(m)

\* The next statement of machine m.
Statement(m) ==
    \/ PrintlnWrites(m) \/ Println(m) \/ PrintlnDrops(m)
    \/ PrintlnPanics(m) \/ PrintlnKilled(m)
    \/ Sleep(m) \/ Return(m)

\* The conversion with the bug of sleeping before it prints.
SleepFirst(m) ==
    /\ pc[m] = "loop"
    /\ sleeps' = [sleeps EXCEPT ![m] = Record(@, step_arm(state_machine[m]).conv.sleep)]
    /\ asleep' = [asleep EXCEPT ![m] = @ + step_arm(state_machine[m]).conv.sleep.secs]
    /\ pc' = [pc EXCEPT ![m] = "woke"]
    /\ UNCHANGED <<state_machine, out, steps, start, stdout, torn, window, keep>>

PrintSecond(m) ==
    /\ pc[m] = "woke"
    /\ out' = [out EXCEPT ![m] = Record(@, step_arm(state_machine[m]).conv.line)]
    /\ pc' = [pc EXCEPT ![m] = "slept"]
    /\ UNCHANGED <<state_machine, sleeps, asleep, steps, start, stdout, torn, window, keep>>

Next_SleepBeforePrint ==
    \E m \in Machines : SleepFirst(m) \/ PrintSecond(m) \/ Return(m) \/ Environment(m)

Next == \E m \in Machines : Statement(m) \/ Environment(m)

Spec == Init /\ [][Next]_vars

(***************************************************************************)
(* main as it is scheduled: a single thread that takes its next statement  *)
(* whenever it can: sleep returns once its duration has passed, println!   *)
(* returns or fails once standard output has taken or refused the line.    *)
(* Nothing is assumed of the environment: while standard output is blocked *)
(* println! has no step to take, for as long as the environment likes.     *)
(***************************************************************************)
FairSpec == Init /\ [][Next]_vars /\ WF_vars(\E m \in Machines : Statement(m))

(***************************************************************************)
(* main run for more than a thousand transitions, of which the recording   *)
(* counts every one and holds the lines and durations of the latest.       *)
(***************************************************************************)
LongInit == Boot([m \in {1} |-> TrafficLightWrapper_new], 3 * MaxCycles, 3 * Cycles)

LongSpec == LongInit /\ [][Next]_vars

(***************************************************************************)
(* step() applied from any wrapper the program can hold: one machine that  *)
(* starts its recording in Green, Yellow or Red.                           *)
(***************************************************************************)
StepInit == \E w \in Wrappers : Boot([m \in {1} |-> w], 3 * Cycles, 3 * Cycles)

StepSpec == StepInit /\ [][Next]_vars

(***************************************************************************)
(* What spec.md expects of the light (section 4.1): the cycle and the wait *)
(* of each variant, in seconds.                                            *)
(***************************************************************************)
Cycle == <<"Green", "Yellow", "Red">>

Successor(v) ==
    CASE v = "Green" -> "Yellow" [] v = "Yellow" -> "Red" [] v = "Red" -> "Green"

WaitSeconds(v) ==
    CASE v = "Green" -> 60 [] v = "Yellow" -> 10 [] v = "Red" -> 60

\* The wrapper of variant v as spec.md describes it.
Expected(v) == [tag |-> v, light |-> [state |-> [name |-> v, wait_time |-> [secs |-> WaitSeconds(v), nanos |-> 0]]]]

\* Machine m has just come back from a call of step.
Stepped(m) == pc[m] = "slept" /\ pc'[m] = "loop"

(***************************************************************************)
(* C1: a call of step on a Green, Yellow or Red wrapper returns the        *)
(* wrapper of its successor in the cycle Green -> Yellow -> Red -> Green,  *)
(* and the variant changes in no other way: no other edge, no self-loop,   *)
(* and no change outside a call of step.                                   *)
(***************************************************************************)
C1_UniqueSuccessor ==
    [][\A m \in Machines :
          IF Stepped(m)
          THEN state_machine'[m].tag = Successor(state_machine[m].tag)
          ELSE state_machine'[m].tag = state_machine[m].tag]_vars

\* Started in Red, the machine has taken all three edges and is in Red again.
C1_Witness ==
    /\ start[1].tag = "Red"
    /\ steps[1] = 3
    /\ state_machine[1].tag = "Red"

(***************************************************************************)
(* C2: whatever variant the machine starts in, after three steps it is in  *)
(* that variant again, and after one or two steps it is not.               *)
(***************************************************************************)
C2_CycleClosure ==
    \A m \in Machines :
        /\ steps[m] = 3 => state_machine[m].tag = start[m].tag
        /\ steps[m] \in {1, 2} => state_machine[m].tag # start[m].tag

\* Three steps from Yellow, back in Yellow.
C2_Witness ==
    /\ start[1].tag = "Yellow"
    /\ steps[1] = 3
    /\ pc[1] = "loop"
    /\ state_machine[1].tag = "Yellow"

(***************************************************************************)
(* C3: in every reachable state the wait carried by the active light is    *)
(* the one of its variant: Green 60s, Yellow 10s, Red 60s.                 *)
(***************************************************************************)
C3_WaitByVariant ==
    \A m \in Machines :
        LET s == state_machine[m].light.state
        IN  /\ s.name \in Variants
            /\ s.wait_time = [secs |-> WaitSeconds(s.name), nanos |-> 0]

\* Yellow in the second cycle, after the durations have been rebuilt.
C3_Witness ==
    /\ steps[1] = 4
    /\ state_machine[1].light.state.name = "Yellow"
    /\ state_machine[1].light.state.wait_time.secs = 10

(***************************************************************************)
(* C4: before any step the machine made by new() is Green with a wait of   *)
(* 60s.                                                                    *)
(***************************************************************************)
C4_InitialGreen ==
    \A m \in Machines :
        (steps[m] = 0 /\ pc[m] = "loop") => state_machine[m] = Expected("Green")

\* The state main is in right after new(): nothing printed, nothing slept.
C4_Witness ==
    /\ steps[1] = 0
    /\ pc[1] = "loop"
    /\ out[1] = <<>>
    /\ state_machine[1].tag = "Green"

(***************************************************************************)
(* C5: from the initial Green, for every i from 0 to 1000 the machine      *)
(* after i steps holds the variant at index i mod 3 of                     *)
(* [Green, Yellow, Red], with its wait of 60s, 10s, 60s; the first three   *)
(* steps give Yellow(10s), Red(60s), Green(60s).                           *)
(***************************************************************************)
C5_IndexModThree ==
    \A m \in Machines :
        /\ steps[m] <= 1000 =>
              state_machine[m] = Expected(Cycle[(steps[m] % 3) + 1])
        /\ steps[m] = 1 => state_machine[m] = Expected("Yellow")
        /\ steps[m] = 2 => state_machine[m] = Expected("Red")
        /\ steps[m] = 3 => state_machine[m] = Expected("Green")

\* The thousandth step has returned: 1000 mod 3 = 1, the light is Yellow.
C5_Witness ==
    /\ steps[1] = 1000
    /\ pc[1] = "loop"
    /\ state_machine[1] = Wrapper("Yellow", TrafficLight(Yellow_new))

(***************************************************************************)
(* C6: no state is terminal: in every reachable state the machine is at    *)
(* one of the three positions of a transition and its next statement can   *)
(* be executed, or waits for standard output alone, so the loop neither    *)
(* deadlocks nor ends on its own.  The code breaks it: a println! whose    *)
(* write fails panics, or is killed by the signal of the write, and the    *)
(* process ends.                                                           *)
(***************************************************************************)
C6_NoTerminalState ==
    \A m \in Machines :
        /\ pc[m] \in {"loop", "printed", "slept"}
        /\ ENABLED Statement(m) \/ stdout[m] = "blocked"

(***************************************************************************)
(* C7: every transition sleeps exactly once, for the wait of the light it  *)
(* leaves (Green 60s, Yellow 10s, Red 60s), and the successor becomes the  *)
(* machine's state only after that sleep.                                  *)
(***************************************************************************)
C7_SleepOnceForOutgoing ==
    /\ [](\A m \in Machines :
            Len(sleeps[m]) = steps[m] + (IF pc[m] = "slept" THEN 1 ELSE 0))
    /\ [][\A m \in Machines :
            /\ Len(sleeps'[m]) > Len(sleeps[m]) =>
                  /\ sleeps'[m] = Append(sleeps[m],
                         [secs |-> WaitSeconds(state_machine[m].tag), nanos |-> 0])
                  /\ state_machine'[m] = state_machine[m]
            /\ state_machine'[m] # state_machine[m] =>
                  /\ pc[m] = "slept"
                  /\ Len(sleeps[m]) = steps[m] + 1]_vars

\* Leaving Yellow in the second cycle: the fifth sleep is Yellow's 10s, the
\* light is still Yellow.
C7_Witness ==
    /\ steps[1] = 4
    /\ pc[1] = "slept"
    /\ state_machine[1].tag = "Yellow"
    /\ Len(sleeps[1]) = 5
    /\ sleeps[1][5].secs = 10

\* The line the program writes for a light of variant v.
LineOf(v) ==
    CASE v = "Green"  -> "last state is TrafficLight { state: Green { wait_time: 60s } }"
      [] v = "Yellow" -> "last state is TrafficLight { state: Yellow { wait_time: 10s } }"
      [] v = "Red"    -> "last state is TrafficLight { state: Red { wait_time: 60s } }"

(***************************************************************************)
(* C8: one line is printed per transition, at its start, and it shows the  *)
(* light that is active then with its wait; after n completed transitions  *)
(* n lines have been printed, and once println! is over no part of a line  *)
(* is left.  A standard output that was closed from the start, on which    *)
(* nothing can be printed, is not held against the claim.  The code        *)
(* breaks it: the println! that panics completes no transition, and its    *)
(* line can be on standard output all the same, whole or cut short.        *)
(***************************************************************************)
C8_OneLinePerTransition ==
    /\ [](\A m \in Machines :
            /\ stdout[m] # "closed" =>
                  Len(out[m]) = steps[m] + (IF pc[m] \in {"printed", "slept"} THEN 1 ELSE 0)
            /\ pc[m] # "loop" => torn[m] = "")
    /\ [][\A m \in Machines :
            Len(out'[m]) > Len(out[m]) =>
               /\ pc[m] = "loop"
               /\ out'[m] = Append(out[m], LineOf(state_machine[m].tag))
               /\ state_machine'[m] = state_machine[m]]_vars

(***************************************************************************)
(* C9: the state set is closed and step is total on it, with no error      *)
(* outcome: in every reachable state the machine holds exactly one of the  *)
(* Green, Yellow and Red wrappers, step of it is again one of them, and    *)
(* the machine is in no error state.  The code breaks the last part: step  *)
(* panics in println!, or dies there by a signal, when the write fails.    *)
(***************************************************************************)
C9_ClosedAndTotal ==
    \A m \in Machines :
        /\ pc[m] \notin Dead
        /\ Cardinality({v \in Variants : state_machine[m] = Expected(v)}) = 1
        /\ step(state_machine[m]) \in {Expected(v) : v \in Variants}

(***************************************************************************)
(* C11: within a transition println! for the outgoing light comes first,   *)
(* then the sleep for its wait, then the successor is built.  Bytes reach  *)
(* standard output only before the transition has slept, and they are the  *)
(* outgoing light's line; the sleep starts only when println! has          *)
(* returned, with that line written unless standard output is closed; the  *)
(* machine's light changes only after the sleep.                           *)
(***************************************************************************)
C11_PrintSleepConstruct ==
    [][\A m \in Machines :
          LET line == LineOf(state_machine[m].tag)
          IN  /\ Len(out'[m]) > Len(out[m]) =>
                    /\ Len(out[m]) = steps[m]
                    /\ Len(sleeps[m]) = steps[m]
                    /\ out'[m] = Append(out[m], line)
                    /\ state_machine'[m] = state_machine[m]
              /\ torn'[m] \notin {torn[m], ""} =>
                    /\ Len(out[m]) = steps[m]
                    /\ Len(sleeps[m]) = steps[m]
                    /\ torn'[m] = SubSeq(line, 1, Len(torn'[m]))
                    /\ state_machine'[m] = state_machine[m]
              /\ Len(sleeps'[m]) > Len(sleeps[m]) =>
                    /\ pc[m] = "printed"
                    /\ Len(sleeps[m]) = steps[m]
                    /\ torn[m] = ""
                    /\ stdout[m] # "closed" =>
                          /\ Len(out[m]) = steps[m] + 1
                          /\ out[m][Len(out[m])] = line
                    /\ state_machine'[m] = state_machine[m]
              /\ state_machine'[m] # state_machine[m] =>
                    /\ pc[m] = "slept"
                    /\ Len(sleeps[m]) = steps[m] + 1
                    /\ out'[m] \in {out[m], <<>>}]_vars

\* The second transition has printed Yellow and slept; Red is not built yet.
C11_Witness ==
    /\ steps[1] = 1
    /\ pc[1] = "slept"
    /\ state_machine[1].tag = "Yellow"
    /\ out[1] = <<LineOf("Green"), LineOf("Yellow")>>
    /\ Len(sleeps[1]) = 2

(***************************************************************************)
(* C12: when the loop keeps stepping (its statements are taken whenever    *)
(* they can be, and standard output does not block for ever), each of      *)
(* Green, Yellow and Red is active again and again, and never more than    *)
(* three steps apart: any three consecutive transitions leave all three    *)
(* lights.  The code breaks it: after a println! has panicked or has been  *)
(* killed no light becomes active any more.                                *)
(***************************************************************************)
C12_EveryLightRecurs ==
    /\ \A v \in Variants :
          <>[](stdout[1] # "blocked") => []<>(state_machine[1].tag = v)
    /\ [](\A i \in 1..(Len(out[1]) - 2) :
            {out[1][i], out[1][i + 1], out[1][i + 2]} = {LineOf(v) : v \in Variants})

\* The light before v in the cycle of spec.md.
Predecessor(v) ==
    CASE v = "Green" -> "Red" [] v = "Yellow" -> "Green" [] v = "Red" -> "Yellow"

\* The k-th printed line, k counted from 0, shows the light at k mod 3 of the cycle.
LinesFollowCycle(m) ==
    \A k \in 0..(Len(out[m]) - 1) : out[m][k + 1] = LineOf(Cycle[(k % 3) + 1])

(***************************************************************************)
(* C13 as claimed: the printed lines follow the cycle from Green, and the  *)
(* printed light always lags the active light by one step: the light       *)
(* entered by the most recent transition has not been printed.  Taken for  *)
(* a running machine that has printed at all.                              *)
(***************************************************************************)
C13_AlwaysLags ==
    \A m \in Machines :
        /\ LinesFollowCycle(m)
        /\ (steps[m] >= 1 /\ pc[m] \notin Dead /\ out[m] # <<>>) =>
              /\ Len(out[m]) <= steps[m]
              /\ out[m][Len(out[m])] = LineOf(Predecessor(state_machine[m].tag))

(***************************************************************************)
(* C13, amended: the printed lines follow the cycle from Green.  Between   *)
(* the return of a step and the printing of the next step's line, that is  *)
(* while as many lines have been printed as steps have returned, the       *)
(* printed light lags the active light by one step: the light entered by   *)
(* the most recent transition has not been printed.  A machine at the loop *)
(* head is there, unless its standard output is closed and it prints       *)
(* nothing.                                                                *)
(***************************************************************************)
C13_LagsBetweenTransitions ==
    \A m \in Machines :
        /\ LinesFollowCycle(m)
        /\ (pc[m] = "loop" /\ stdout[m] # "closed") => Len(out[m]) = steps[m]
        /\ (Len(out[m]) = steps[m] /\ steps[m] >= 1) =>
              out[m][Len(out[m])] = LineOf(Predecessor(state_machine[m].tag))

\* Four transitions done: the fourth line shows Green, the active light is
\* Yellow and has not been printed in this cycle.
C13_Witness ==
    /\ steps[1] = 4
    /\ pc[1] = "loop"
    /\ state_machine[1].tag = "Yellow"
    /\ out[1] = <<LineOf("Green"), LineOf("Yellow"), LineOf("Red"), LineOf("Green")>>

(***************************************************************************)
(* C14: from the initial Green, the time slept by the completed            *)
(* transitions depends on their number alone: 130*k seconds after 3k       *)
(* transitions, 130*k + 60 after 3k+1, 130*k + 70 after 3k+2; a transition *)
(* that has slept and not returned yet counts with its sleep.              *)
(***************************************************************************)
C14_TotalSleep ==
    \A m \in Machines :
        LET n == steps[m] + (IF pc[m] = "slept" THEN 1 ELSE 0)
            k == n \div 3
        IN  asleep[m] =
               CASE n % 3 = 0 -> 130 * k
                 [] n % 3 = 1 -> 130 * k + 60
                 [] n % 3 = 2 -> 130 * k + 70

\* Eight transitions done (k = 2, two more): 60+10+60 twice, then 60+10.
C14_Witness ==
    /\ steps[1] = 8
    /\ pc[1] = "loop"
    /\ Len(sleeps[1]) = 8
    /\ asleep[1] = 330

(***************************************************************************)
(* C15: the tagged union and the type-state conversions are one machine:   *)
(* the wrapper's variant is always the kind of the light it wraps, and a   *)
(* step of the wrapper runs exactly one conversion, from the light it      *)
(* held (the one sleep of the step is that light's wait) to the light of   *)
(* the next kind, which the new wrapper's variant names.                   *)
(***************************************************************************)
C15_WrapperMatchesTypeState ==
    /\ [](\A m \in Machines : state_machine[m].tag = state_machine[m].light.state.name)
    /\ [][\A m \in Machines :
            Stepped(m) =>
               /\ Len(sleeps[m]) = steps[m] + 1
               /\ sleeps[m][Len(sleeps[m])] = state_machine[m].light.state.wait_time
               /\ state_machine'[m].light.state.name = state_machine'[m].tag
               /\ state_machine'[m].light =
                     Expected(Successor(state_machine[m].light.state.name)).light]_vars

\* The Red wrapper holds a Red light, made by the one conversion from
\* Yellow, whose 10s are the last sleep.
C15_Witness ==
    /\ steps[1] = 2
    /\ pc[1] = "loop"
    /\ state_machine[1].tag = "Red"
    /\ state_machine[1].light.state.name = "Red"
    /\ sleeps[1] = <<Green_new.wait_time, Yellow_new.wait_time>>

====
